---- MODULE Spec2Model ----
(***************************************************************************)
(* Linear reconstruction of TorchSWE (torchswe/kernels/                    *)
(* cupy_reconstruction.pyx): the six element-wise kernels and the          *)
(* function reconstruct, which launches them over slices of the state      *)
(* arrays.                                                                 *)
(*                                                                         *)
(* Numbers.  The arrays hold IEEE 754 binary64 values (T = float64, as the  *)
(* double literals and parameters of the kernels): every operation rounds  *)
(* its exact result to nearest, ties to even, with subnormals, signed      *)
(* zeros, infinities and NaN; min and max are those of CUDA device code    *)
(* (fmin/fmax: a NaN operand is dropped).                                  *)
(***************************************************************************)
EXTENDS Integers, Sequences, FiniteSets, TLC

----------------------------------------------------------------------------
(* Natural numbers of any size, for the significands: little-endian        *)
(* sequences of limbs in 0 .. Base - 1 with no zero limb at the top; <<>>  *)
(* is 0.                                                                   *)

LimbBits == 15

Base == 2 ^ LimbBits

Limb(a, i) == IF i <= Len(a) THEN a[i] ELSE 0

RECURSIVE BTrim(_)
BTrim(a) ==
    IF a = <<>> \/ a[Len(a)] # 0 THEN a ELSE BTrim(SubSeq(a, 1, Len(a) - 1))

RECURSIVE FromNat(_)
FromNat(n) == IF n = 0 THEN <<>> ELSE <<n % Base>> \o FromNat(n \div Base)

\* Number of bits of a limb.
RECURSIVE ILen(_)
ILen(v) == IF v = 0 THEN 0 ELSE 1 + ILen(v \div 2)

\* Number of trailing zero bits of a nonzero limb.
RECURSIVE ITz(_)
ITz(v) == IF v % 2 = 1 THEN 0 ELSE 1 + ITz(v \div 2)

BLen(a) == IF a = <<>> THEN 0 ELSE LimbBits * (Len(a) - 1) + ILen(a[Len(a)])

BTz(a) ==
    LET i == CHOOSE j \in 1 .. Len(a) : a[j] # 0 /\ \A l \in 1 .. j - 1 : a[l] = 0
    IN  LimbBits * (i - 1) + ITz(a[i])

\* -1, 0, 1 as a < b, a = b, a > b.
BCmp(a, b) ==
    IF Len(a) # Len(b) THEN (IF Len(a) < Len(b) THEN -1 ELSE 1)
    ELSE LET diff == {i \in 1 .. Len(a) : a[i] # b[i]}
         IN  IF diff = {} THEN 0
             ELSE LET i == CHOOSE j \in diff : \A l \in diff : l <= j
                  IN  IF a[i] < b[i] THEN -1 ELSE 1

RECURSIVE BAddFrom(_, _, _, _)
BAddFrom(a, b, i, c) ==
    IF i > Len(a) /\ i > Len(b) THEN (IF c = 0 THEN <<>> ELSE <<c>>)
    ELSE LET s == Limb(a, i) + Limb(b, i) + c
         IN  <<s % Base>> \o BAddFrom(a, b, i + 1, s \div Base)

BAdd(a, b) == BAddFrom(a, b, 1, 0)

\* a - b for a >= b.
RECURSIVE BSubFrom(_, _, _, _)
BSubFrom(a, b, i, c) ==
    IF i > Len(a) THEN <<>>
    ELSE LET s == a[i] - Limb(b, i) - c
         IN  IF s < 0 THEN <<s + Base>> \o BSubFrom(a, b, i + 1, 1)
             ELSE <<s>> \o BSubFrom(a, b, i + 1, 0)

BSub(a, b) == BTrim(BSubFrom(a, b, 1, 0))

\* a * d for a limb d.
RECURSIVE BMulLimbFrom(_, _, _, _)
BMulLimbFrom(a, d, i, c) ==
    IF i > Len(a) THEN (IF c = 0 THEN <<>> ELSE <<c>>)
    ELSE LET s == a[i] * d + c
         IN  <<s % Base>> \o BMulLimbFrom(a, d, i + 1, s \div Base)

BMulLimb(a, d) == IF d = 0 THEN <<>> ELSE BMulLimbFrom(a, d, 1, 0)

RECURSIVE BMulFrom(_, _, _)
BMulFrom(a, b, j) ==
    IF j > Len(b) THEN <<>>
    ELSE LET rest == BMulFrom(a, b, j + 1)
         IN  BAdd(BMulLimb(a, b[j]), IF rest = <<>> THEN <<>> ELSE <<0>> \o rest)

BMul(a, b) == IF a = <<>> \/ b = <<>> THEN <<>> ELSE BMulFrom(a, b, 1)

\* a * 2^k.
BShl(a, k) ==
    IF a = <<>> \/ k = 0 THEN a
    ELSE [i \in 1 .. k \div LimbBits |-> 0] \o BMulLimb(a, 2 ^ (k % LimbBits))

\* floor(a / 2^k).
BShr(a, k) ==
    LET w == k \div LimbBits
        r == k % LimbBits
    IN  IF w >= Len(a) THEN <<>>
        ELSE BTrim([i \in 1 .. Len(a) - w |->
                       (a[i + w] \div 2 ^ r) + (Limb(a, i + w + 1) % 2 ^ r) * 2 ^ (LimbBits - r)])

\* Bit k of a, bit 0 the lowest.
BBit(a, k) == (Limb(a, k \div LimbBits + 1) \div 2 ^ (k % LimbBits)) % 2

\* The k lowest bits of a are all 0.
BLowZero(a, k) ==
    /\ \A i \in 1 .. k \div LimbBits : Limb(a, i) = 0
    /\ Limb(a, k \div LimbBits + 1) % 2 ^ (k % LimbBits) = 0

----------------------------------------------------------------------------
(* IEEE 754 binary64, the type T of the arrays and of the double literals  *)
(* and parameters of the kernels.  A value is a record: k is "fin", "inf"  *)
(* or "nan", s the sign bit; a finite value is (-1)^s * m * 2^e with the   *)
(* significand m odd, or m = <<>> and e = 0 for a zero.  Every operation   *)
(* rounds its exact result to nearest, ties to even.                       *)

\* Bits of a significand.
Precision == 53

\* Exponent of the lowest bit of a subnormal.
MinExp == -1074

\* 2^MaxTop is the first magnitude that rounds to an infinity.
MaxTop == 1024

Inf(s) == [k |-> "inf", s |-> s, m |-> <<>>, e |-> 0]

NaN == [k |-> "nan", s |-> 0, m |-> <<>>, e |-> 0]

SignedZero(s) == [k |-> "fin", s |-> s, m |-> <<>>, e |-> 0]

Zero == SignedZero(0)

IsNaN(x) == x.k = "nan"

IsFinite(x) == x.k = "fin"

IsZero(x) == x.k = "fin" /\ x.m = <<>>

\* (-1)^s * m * 2^e for m that needs no rounding.
Canon(s, m, e) ==
    IF m = <<>> THEN SignedZero(s)
    ELSE IF e + BLen(m) > MaxTop THEN Inf(s)
    ELSE IF m[1] % 2 = 1 THEN [k |-> "fin", s |-> s, m |-> m, e |-> e]
    ELSE LET tz == BTz(m)
         IN  [k |-> "fin", s |-> s, m |-> BShr(m, tz), e |-> e + tz]

\* (-1)^s * (m + f) * 2^e rounded, where 0 < f < 1 if sticky and f = 0 if not.
RoundPack(s, m, e, sticky) ==
    LET low == e + BLen(m) - Precision
        q == IF low > MinExp THEN low ELSE MinExp
        sh == q - e
    IN  IF sh <= 0 THEN Canon(s, m, e)
        ELSE LET keep == BShr(m, sh)
                 half == BBit(m, sh - 1) = 1
                 rest == sticky \/ ~BLowZero(m, sh - 1)
                 up == half /\ (rest \/ BBit(keep, 0) = 1)
             IN  Canon(s, IF up THEN BAdd(keep, <<1>>) ELSE keep, q)

\* The double of an integer.
R(n) == IF n < 0 THEN RoundPack(1, FromNat(-n), 0, FALSE) ELSE RoundPack(0, FromNat(n), 0, FALSE)

\* The literals 1.0 and 2.0.
One == R(1)

Two == R(2)

\* Position above the top bit of a nonzero finite x: |x| < 2^Top(x).
Top(x) == x.e + BLen(x.m)

\* -1, 0, 1 as |x| < |y|, |x| = |y|, |x| > |y| for nonzero finite x and y.
MagCmp(x, y) ==
    IF Top(x) # Top(y) THEN (IF Top(x) < Top(y) THEN -1 ELSE 1)
    ELSE IF x.e >= y.e THEN BCmp(BShl(x.m, x.e - y.e), y.m)
    ELSE BCmp(x.m, BShl(y.m, y.e - x.e))

Neg(x) == IF IsNaN(x) THEN x ELSE [x EXCEPT !.s = 1 - x.s]

\* x + y for nonzero finite x and y whose significands are one limb each and
\* whose exponents are at most LimbBits apart: the exact sum is computed in
\* one piece.
AddSmall(x, y) ==
    LET e == IF x.e < y.e THEN x.e ELSE y.e
        v == (1 - 2 * x.s) * x.m[1] * 2 ^ (x.e - e) + (1 - 2 * y.s) * y.m[1] * 2 ^ (y.e - e)
    IN  IF v < 0 THEN RoundPack(1, FromNat(-v), e, FALSE) ELSE RoundPack(0, FromNat(v), e, FALSE)

\* x + y for nonzero finite x and y.  A y below a quarter of the last place
\* of x cannot change the rounded sum.
AddFinite(x, y) ==
    IF Len(x.m) = 1 /\ Len(y.m) = 1 /\ x.e - y.e <= LimbBits /\ y.e - x.e <= LimbBits
    THEN AddSmall(x, y)
    ELSE IF Top(x) - Top(y) > Precision + 3 THEN x
    ELSE IF Top(y) - Top(x) > Precision + 3 THEN y
    ELSE LET e == IF x.e < y.e THEN x.e ELSE y.e
             X == BShl(x.m, x.e - e)
             Y == BShl(y.m, y.e - e)
             c == BCmp(X, Y)
         IN  IF x.s = y.s THEN RoundPack(x.s, BAdd(X, Y), e, FALSE)
             ELSE IF c = 0 THEN Zero
             ELSE IF c > 0 THEN RoundPack(x.s, BSub(X, Y), e, FALSE)
             ELSE RoundPack(y.s, BSub(Y, X), e, FALSE)

\* x + y: Inf + Inf of one sign is Inf, Inf - Inf and anything with NaN is
\* NaN; a sum that is exactly zero is +0 unless both operands are -0.
Add(x, y) ==
    IF IsNaN(x) \/ IsNaN(y) THEN NaN
    ELSE IF x.k = "inf" THEN (IF y.k = "inf" /\ y.s # x.s THEN NaN ELSE x)
    ELSE IF y.k = "inf" THEN y
    ELSE IF IsZero(x) THEN (IF IsZero(y) THEN SignedZero(IF x.s = 1 /\ y.s = 1 THEN 1 ELSE 0) ELSE y)
    ELSE IF IsZero(y) THEN x
    ELSE AddFinite(x, y)

Sub(x, y) == Add(x, Neg(y))

\* x * y: Inf * 0 is NaN.
Mul(x, y) ==
    LET s == (x.s + y.s) % 2
    IN  IF IsNaN(x) \/ IsNaN(y) THEN NaN
        ELSE IF x.k = "inf" \/ y.k = "inf"
        THEN (IF IsZero(x) \/ IsZero(y) THEN NaN ELSE Inf(s))
        ELSE IF IsZero(x) \/ IsZero(y) THEN SignedZero(s)
        ELSE IF Len(x.m) = 1 /\ Len(y.m) = 1
        THEN RoundPack(s, FromNat(x.m[1] * y.m[1]), x.e + y.e, FALSE)
        ELSE RoundPack(s, BMul(x.m, y.m), x.e + y.e, FALSE)

\* One digit of a long division in base Base: the largest digit q, found by
\* counting down from an estimate not below it, with q * b <= rem, and what
\* is left of rem.
RECURSIVE DivDigit(_, _, _)
DivDigit(rem, b, q) ==
    LET p == BMulLimb(b, q)
    IN  IF BCmp(p, rem) <= 0 THEN <<q, BSub(rem, p)>> ELSE DivDigit(rem, b, q - 1)

\* n more digits of the quotient rem / b below the digits qs (lowest first),
\* for rem < b and b with its top limb at least Base / 2: the two top limbs
\* of rem * Base over the top limb of b overestimate a digit by 2 at most.
\* <<digits, remainder>>.
RECURSIVE DivDigits(_, _, _, _)
DivDigits(rem, b, qs, n) ==
    IF n = 0 THEN <<qs, rem>>
    ELSE IF rem = <<>> THEN DivDigits(rem, b, <<0>> \o qs, n - 1)
    ELSE LET r == <<0>> \o rem
             est == (Limb(r, Len(b) + 1) * Base + Limb(r, Len(b))) \div b[Len(b)]
             d == DivDigit(r, b, IF est < Base THEN est ELSE Base - 1)
         IN  DivDigits(d[2], b, <<d[1]>> \o qs, n - 1)

\* Digits of a quotient below its integer bit: enough for a significand, a
\* rounding bit and more.
QuotientDigits == (Precision + 3) \div LimbBits + 1

\* Short division by a limb d: the limbs of a from limb i down and then n
\* zero limbs are brought down to the remainder r < d, one digit of the
\* quotient each.  <<digits (lowest first), remainder>>.
RECURSIVE ShortDiv(_, _, _, _, _, _)
ShortDiv(a, d, i, n, r, qs) ==
    IF i = 0 /\ n = 0 THEN <<qs, r>>
    ELSE LET cur == r * Base + (IF i > 0 THEN a[i] ELSE 0)
         IN  IF i > 0 THEN ShortDiv(a, d, i - 1, n, cur % d, <<cur \div d>> \o qs)
             ELSE ShortDiv(a, d, 0, n - 1, cur % d, <<cur \div d>> \o qs)

\* x / y for nonzero finite x and y with a one-limb significand of y: the
\* significand of x is extended by zero limbs so that the quotient has more
\* bits than a significand and a rounding bit.
DivByLimb(x, y, s) ==
    LET n == QuotientDigits + 2 - Len(x.m)
        d == ShortDiv(x.m, y.m[1], Len(x.m), n, 0, <<>>)
    IN  RoundPack(s, BTrim(d[1]), (x.e - y.e) - LimbBits * n, d[2] # 0)

\* x / y for nonzero finite x and y: the significands are aligned to one
\* length, a multiple of LimbBits, so that the quotient A / B lies between
\* 1/2 and 2.
DivFinite(x, y, s) ==
    IF Len(y.m) = 1 THEN DivByLimb(x, y, s) ELSE
    LET lx == BLen(x.m)
        ly == BLen(y.m)
        L == LimbBits * (IF Len(x.m) > Len(y.m) THEN Len(x.m) ELSE Len(y.m))
        A == BShl(x.m, L - lx)
        B == BShl(y.m, L - ly)
        e == (x.e - y.e) + (lx - ly)
        first == IF BCmp(A, B) >= 0 THEN <<BSub(A, B), <<1>>>> ELSE <<A, <<0>>>>
        d == DivDigits(first[1], B, first[2], QuotientDigits)
    IN  RoundPack(s, BTrim(d[1]), e - LimbBits * QuotientDigits, d[2] # <<>>)

\* x / y: a nonzero x over a zero is Inf, 0/0 and Inf/Inf are NaN; the sign
\* is the product of the signs, the sign of a zero included.
Div(x, y) ==
    LET s == (x.s + y.s) % 2
    IN  IF IsNaN(x) \/ IsNaN(y) THEN NaN
        ELSE IF x.k = "inf" THEN (IF y.k = "inf" THEN NaN ELSE Inf(s))
        ELSE IF y.k = "inf" THEN SignedZero(s)
        ELSE IF IsZero(y) THEN (IF IsZero(x) THEN NaN ELSE Inf(s))
        ELSE IF IsZero(x) THEN SignedZero(s)
        ELSE IF y.m = <<1>> THEN RoundPack(s, x.m, x.e - y.e, FALSE)
        ELSE DivFinite(x, y, s)

\* x < y, false when either is NaN; -0 and +0 are equal.
Less(x, y) ==
    IF IsNaN(x) \/ IsNaN(y) THEN FALSE
    ELSE IF IsZero(x) THEN (~IsZero(y) /\ y.s = 0)
    ELSE IF IsZero(y) THEN x.s = 1
    ELSE IF x.s # y.s THEN x.s = 1
    ELSE IF x.k = "inf" THEN (x.s = 1 /\ y.k # "inf")
    ELSE IF y.k = "inf" THEN y.s = 0
    ELSE IF x.s = 0 THEN MagCmp(x, y) < 0
    ELSE MagCmp(x, y) > 0

Leq(x, y) == ~IsNaN(x) /\ ~IsNaN(y) /\ ~Less(y, x)

\* x == y of the arithmetic: false when either is NaN, true for -0 and +0.
Eq(x, y) == Leq(x, y) /\ Leq(y, x)

\* min and max of CUDA device code (fmin, fmax): a NaN operand is dropped,
\* and -0 counts as below +0.
Min(x, y) ==
    IF IsNaN(x) THEN y ELSE IF IsNaN(y) THEN x
    ELSE IF Less(y, x) THEN y ELSE IF Less(x, y) THEN x
    ELSE IF x.s = 1 THEN x ELSE y

Max(x, y) ==
    IF IsNaN(x) THEN y ELSE IF IsNaN(y) THEN x
    ELSE IF Less(x, y) THEN y ELSE IF Less(y, x) THEN x
    ELSE IF x.s = 0 THEN x ELSE y

----------------------------------------------------------------------------
(* The element-wise kernels.  An output the kernel body does not assign    *)
(* keeps the content of the output array element; that prior content is    *)
(* the kernel's last parameter(s).                                         *)

\* The limited ratio not multiplied back by the denominator.
minmod_slope_kernel_unscaled(s1, s2, s3, theta) ==
    LET denominator == Sub(s3, s2)
        slp0 == Div(Sub(s2, s1), denominator)
        slp1 == Min(Mul(slp0, theta), Div(Add(One, slp0), Two))
        slp2 == Min(slp1, theta)
        slp3 == Max(slp2, Zero)
    IN  Div(slp3, Two)

\* min and max that hand a NaN operand on (a < b ? a : b), not fmin and fmax.
minmod_slope_kernel_nan(s1, s2, s3, theta) ==
    LET min(x, y) == IF Less(y, x) THEN y ELSE x
        max(x, y) == IF Less(x, y) THEN y ELSE x
        denominator == Sub(s3, s2)
        slp0 == Div(Sub(s2, s1), denominator)
        slp1 == min(Mul(slp0, theta), Div(Add(One, slp0), Two))
        slp2 == min(slp1, theta)
        slp3 == max(slp2, Zero)
        slp4 == Mul(slp3, denominator)
    IN  Div(slp4, Two)

minmod_slope_kernel(s1, s2, s3, theta) ==
    LET denominator == Sub(s3, s2)
        slp0 == Div(Sub(s2, s1), denominator)
        slp1 == Min(Mul(slp0, theta), Div(Add(One, slp0), Two))
        slp2 == Min(slp1, theta)
        slp3 == Max(slp2, Zero)
        slp4 == Mul(slp3, denominator)
    IN  Div(slp4, Two)

fix_rounding_err_kernel(depth, tol, ans) ==
    IF Less(depth, tol) THEN Zero ELSE ans

\* The division left unguarded.
recnstrt_face_vel_kernel_unguarded(depth, hu, hv, drytol) ==
    <<Div(hu, depth), Div(hv, depth)>>

recnstrt_face_vel_kernel(depth, hu, hv, drytol) ==
    IF Less(depth, drytol)
    THEN <<Zero, Zero>>
    ELSE <<Div(hu, depth), Div(hv, depth)>>

\* The topography left out of the surface elevation.
recnstrt_face_conservatives_no_topo(h, u, v, b) ==
    <<h, Mul(h, u), Mul(h, v)>>

recnstrt_face_conservatives(h, u, v, b) ==
    <<Add(h, b), Mul(h, u), Mul(h, v)>>

\* The other side set to hc instead of 2 * hc.
correct_neg_depth_internal_undoubled(hc, hl, hr, nhl, nhr) ==
    IF Less(hl, Zero) THEN <<Zero, hc>>
    ELSE IF Less(hr, Zero) THEN <<hc, Zero>>
    ELSE <<nhl, nhr>>

correct_neg_depth_internal(hc, hl, hr, nhl, nhr) ==
    IF Less(hl, Zero) THEN <<Zero, Mul(hc, Two)>>
    ELSE IF Less(hr, Zero) THEN <<Mul(hc, Two), Zero>>
    ELSE <<nhl, nhr>>

correct_neg_depth_edge(h, nh) ==
    IF Less(h, Zero) THEN Zero ELSE nh

----------------------------------------------------------------------------
(* The grid of reconstruct: nx by ny interior cells padded by ngh ghost    *)
(* cells on every side.                                                    *)

ngh == 2

nx == 2

ny == 1

xbg == ngh

xed == nx + ngh

ybg == ngh

yed == ny + ngh

Comps == 0 .. 2

\* Index sets of the arrays, by the name the source gives each array.
Shape(a) ==
    CASE a = "Q"    -> Comps \X (0 .. ny + 2 * ngh - 1) \X (0 .. nx + 2 * ngh - 1)
      [] a = "U"    -> Comps \X (0 .. ny - 1) \X (0 .. nx - 1)
      [] a = "H"    -> (0 .. ny - 1) \X (0 .. nx - 1)
      [] a = "slpx" -> Comps \X (0 .. ny - 1) \X (0 .. nx + 1)
      [] a = "slpy" -> Comps \X (0 .. ny + 1) \X (0 .. nx - 1)
      [] a \in {"xmQ", "xpQ", "xmU", "xpU"} -> Comps \X (0 .. ny - 1) \X (0 .. nx)
      [] a \in {"ymQ", "ypQ", "ymU", "ypU"} -> Comps \X (0 .. ny) \X (0 .. nx - 1)
      [] a = "centers"   -> (0 .. ny - 1) \X (0 .. nx - 1)
      [] a = "xfcenters" -> (0 .. ny - 1) \X (0 .. nx)
      [] a = "yfcenters" -> (0 .. ny) \X (0 .. nx - 1)

Arrays ==
    {"Q", "U", "H", "slpx", "slpy", "xmQ", "xpQ", "ymQ", "ypQ",
     "xmU", "xpU", "ymU", "ypU", "centers", "xfcenters", "yfcenters"}

\* An array element: the array's name and the element's index.
Loc(a, idx) == <<a, idx>>

InBounds(loc) == loc[1] \in Arrays /\ loc[2] \in Shape(loc[1])

----------------------------------------------------------------------------
(* Kernel launches.  A launch is the set of its element operations; an     *)
(* element operation names the kernel, the array elements bound to the     *)
(* kernel's inputs and the array elements bound to its outputs, as the     *)
(* slices in the call pair them up.                                        *)

Op(kern, ins, outs) == [kernel |-> kern, ins |-> ins, outs |-> outs]

\* slpx = _minmod_slope_kernel(Q[:, ybg:yed, xbg-2:xed], Q[:, ybg:yed, xbg-1:xed+1],
\*                             Q[:, ybg:yed, xbg:xed+2], theta)
get_slpx ==
    {Op("minmod_slope_kernel",
        <<Loc("Q", <<k, ybg + i, xbg - 2 + j>>), Loc("Q", <<k, ybg + i, xbg - 1 + j>>),
          Loc("Q", <<k, ybg + i, xbg + j>>)>>,
        <<Loc("slpx", <<k, i, j>>)>>) : k \in Comps, i \in 0 .. ny - 1, j \in 0 .. nx + 1}

\* slpy = _minmod_slope_kernel(Q[:, ybg-2:yed, xbg:xed], Q[:, ybg-1:yed+1, xbg:xed],
\*                             Q[:, ybg:yed+2, xbg:xed], theta)
get_slpy ==
    {Op("minmod_slope_kernel",
        <<Loc("Q", <<k, ybg - 2 + i, xbg + j>>), Loc("Q", <<k, ybg - 1 + i, xbg + j>>),
          Loc("Q", <<k, ybg + i, xbg + j>>)>>,
        <<Loc("slpy", <<k, i, j>>)>>) : k \in Comps, i \in 0 .. ny + 1, j \in 0 .. nx - 1}

\* cupy.add(Q[:, ybg:yed, xbg-1:xed], slpx[:, :, :nx+1], out=xmQ)
add_xmQ ==
    {Op("add", <<Loc("Q", <<k, ybg + i, xbg - 1 + j>>), Loc("slpx", <<k, i, j>>)>>,
        <<Loc("xmQ", <<k, i, j>>)>>) : k \in Comps, i \in 0 .. ny - 1, j \in 0 .. nx}

\* The slope slice of the minus side, slpx[:, :, :nx+1], used for the plus side.
subtract_xpQ_left_slope ==
    {Op("subtract", <<Loc("Q", <<k, ybg + i, xbg + j>>), Loc("slpx", <<k, i, j>>)>>,
        <<Loc("xpQ", <<k, i, j>>)>>) : k \in Comps, i \in 0 .. ny - 1, j \in 0 .. nx}

\* cupy.subtract(Q[:, ybg:yed, xbg:xed+1], slpx[:, :, 1:], out=xpQ)
subtract_xpQ ==
    {Op("subtract", <<Loc("Q", <<k, ybg + i, xbg + j>>), Loc("slpx", <<k, i, 1 + j>>)>>,
        <<Loc("xpQ", <<k, i, j>>)>>) : k \in Comps, i \in 0 .. ny - 1, j \in 0 .. nx}

\* cupy.add(Q[:, ybg-1:yed, xbg:xed], slpy[:, :ny+1, :], out=ymQ)
add_ymQ ==
    {Op("add", <<Loc("Q", <<k, ybg - 1 + i, xbg + j>>), Loc("slpy", <<k, i, j>>)>>,
        <<Loc("ymQ", <<k, i, j>>)>>) : k \in Comps, i \in 0 .. ny, j \in 0 .. nx - 1}

\* cupy.subtract(Q[:, ybg:yed+1, xbg:xed], slpy[:, 1:, :], out=ypQ)
subtract_ypQ ==
    {Op("subtract", <<Loc("Q", <<k, ybg + i, xbg + j>>), Loc("slpy", <<k, 1 + i, j>>)>>,
        <<Loc("ypQ", <<k, i, j>>)>>) : k \in Comps, i \in 0 .. ny, j \in 0 .. nx - 1}

\* cupy.subtract(Q[0, ybg:yed, xbg:xed], topo.centers, out=H)
subtract_H ==
    {Op("subtract", <<Loc("Q", <<0, ybg + i, xbg + j>>), Loc("centers", <<i, j>>)>>,
        <<Loc("H", <<i, j>>)>>) : i \in 0 .. ny - 1, j \in 0 .. nx - 1}

\* cupy.subtract(fQ[0], topo.<b>, out=fU[0]) for a face array pair fQ, fU
subtract_depth(fQ, fU, b) ==
    {Op("subtract", <<Loc(fQ, <<0, ij[1], ij[2]>>), Loc(b, ij)>>,
        <<Loc(fU, <<0, ij[1], ij[2]>>)>>) : ij \in Shape(b)}

\* The minus side sliced as xmU[0, :, :nx]: the pair of a cell then takes the
\* minus depth of the cell's own left face, and column 0 is also the edge's.
neg_internal_x_unshifted ==
    {Op("correct_neg_depth_internal",
        <<Loc("H", <<i, j>>), Loc("xpU", <<0, i, j>>), Loc("xmU", <<0, i, j>>)>>,
        <<Loc("xpU", <<0, i, j>>), Loc("xmU", <<0, i, j>>)>>) :
       i \in 0 .. ny - 1, j \in 0 .. nx - 1}

\* _correct_neg_depth_internal(H, xpU[0, :, :nx], xmU[0, :, 1:], xpU[0, :, :nx], xmU[0, :, 1:])
neg_internal_x ==
    {Op("correct_neg_depth_internal",
        <<Loc("H", <<i, j>>), Loc("xpU", <<0, i, j>>), Loc("xmU", <<0, i, 1 + j>>)>>,
        <<Loc("xpU", <<0, i, j>>), Loc("xmU", <<0, i, 1 + j>>)>>) :
       i \in 0 .. ny - 1, j \in 0 .. nx - 1}

\* _correct_neg_depth_edge(xpU[0, :, nx], xpU[0, :, nx])
neg_edge_xp ==
    {Op("correct_neg_depth_edge", <<Loc("xpU", <<0, i, nx>>)>>, <<Loc("xpU", <<0, i, nx>>)>>) :
       i \in 0 .. ny - 1}

\* _correct_neg_depth_edge(xmU[0, :, 0], xmU[0, :, 0])
neg_edge_xm ==
    {Op("correct_neg_depth_edge", <<Loc("xmU", <<0, i, 0>>)>>, <<Loc("xmU", <<0, i, 0>>)>>) :
       i \in 0 .. ny - 1}

\* _correct_neg_depth_internal(H, ypU[0, :ny, :], ymU[0, 1:, :], ypU[0, :ny, :], ymU[0, 1:, :])
neg_internal_y ==
    {Op("correct_neg_depth_internal",
        <<Loc("H", <<i, j>>), Loc("ypU", <<0, i, j>>), Loc("ymU", <<0, 1 + i, j>>)>>,
        <<Loc("ypU", <<0, i, j>>), Loc("ymU", <<0, 1 + i, j>>)>>) :
       i \in 0 .. ny - 1, j \in 0 .. nx - 1}

\* _correct_neg_depth_edge(ypU[0, ny, :], ypU[0, ny, :])
neg_edge_yp ==
    {Op("correct_neg_depth_edge", <<Loc("ypU", <<0, ny, j>>)>>, <<Loc("ypU", <<0, ny, j>>)>>) :
       j \in 0 .. nx - 1}

\* _correct_neg_depth_edge(ymU[0, 0, :], ymU[0, 0, :])
neg_edge_ym ==
    {Op("correct_neg_depth_edge", <<Loc("ymU", <<0, 0, j>>)>>, <<Loc("ymU", <<0, 0, j>>)>>) :
       j \in 0 .. nx - 1}

\* _fix_rounding_err_kernel(fU[0], tol, fU[0])
fix_rounding(fU) ==
    {Op("fix_rounding_err_kernel", <<Loc(fU, idx)>>, <<Loc(fU, idx)>>) :
       idx \in {x \in Shape(fU) : x[1] = 0}}

\* _recnstrt_face_vel_kernel(fU[0], fQ[1], fQ[2], drytol, fU[1], fU[2])
recnstrt_vel(fQ, fU) ==
    {Op("recnstrt_face_vel_kernel",
        <<Loc(fU, idx), Loc(fQ, <<1, idx[2], idx[3]>>), Loc(fQ, <<2, idx[2], idx[3]>>)>>,
        <<Loc(fU, <<1, idx[2], idx[3]>>), Loc(fU, <<2, idx[2], idx[3]>>)>>) :
       idx \in {x \in Shape(fU) : x[1] = 0}}

\* _recnstrt_face_conservatives(fU[0], fU[1], fU[2], topo.<b>, fQ[0], fQ[1], fQ[2])
recnstrt_cnsrv(fQ, fU, b) ==
    {Op("recnstrt_face_conservatives",
        <<Loc(fU, <<0, ij[1], ij[2]>>), Loc(fU, <<1, ij[1], ij[2]>>),
          Loc(fU, <<2, ij[1], ij[2]>>), Loc(b, ij)>>,
        <<Loc(fQ, <<0, ij[1], ij[2]>>), Loc(fQ, <<1, ij[1], ij[2]>>),
          Loc(fQ, <<2, ij[1], ij[2]>>)>>) : ij \in Shape(b)}

----------------------------------------------------------------------------
(* State *)

VARIABLES
    mem,     \* the arrays of states, states.face and runtime.topo, by name
    theta,   \* config.params.theta
    drytol,  \* config.params.drytol
    tol,     \* runtime.tol
    pc       \* the group of launches reconstruct is about to issue

vars == <<mem, theta, drytol, tol, pc>>

Read(m, loc) == m[loc[1]][loc[2]]

\* The values an element operation assigns to its outputs, reading memory m.
KernelResult(op, m) ==
    LET a(n) == Read(m, op.ins[n])
        o(n) == Read(m, op.outs[n])
    IN  CASE op.kernel = "minmod_slope_kernel" ->
               <<minmod_slope_kernel(a(1), a(2), a(3), theta)>>
          [] op.kernel = "add" -> <<Add(a(1), a(2))>>
          [] op.kernel = "subtract" -> <<Sub(a(1), a(2))>>
          [] op.kernel = "correct_neg_depth_internal" ->
               correct_neg_depth_internal(a(1), a(2), a(3), o(1), o(2))
          [] op.kernel = "correct_neg_depth_edge" ->
               <<correct_neg_depth_edge(a(1), o(1))>>
          [] op.kernel = "fix_rounding_err_kernel" ->
               <<fix_rounding_err_kernel(a(1), tol, o(1))>>
          [] op.kernel = "recnstrt_face_vel_kernel" ->
               recnstrt_face_vel_kernel(a(1), a(2), a(3), drytol)
          [] op.kernel = "recnstrt_face_conservatives" ->
               recnstrt_face_conservatives(a(1), a(2), a(3), a(4))

\* The element operations of a launch that write array element loc.
Writers(ops, loc) == {op \in ops : \E n \in 1 .. Len(op.outs) : op.outs[n] = loc}

\* One launch: every element operation reads the memory m the launch started
\* from; an element no operation writes keeps its content.
ExecLaunch(m, ops) ==
    LET written == UNION {{op.outs[n][1] : n \in 1 .. Len(op.outs)} : op \in ops}
        NewVal(loc) ==
            LET W == Writers(ops, loc)
            IN  IF W = {} THEN Read(m, loc)
                ELSE LET op == CHOOSE x \in W : TRUE
                         n == CHOOSE x \in 1 .. Len(op.outs) : op.outs[x] = loc
                     IN  KernelResult(op, m)[n]
    IN  [a \in DOMAIN m |->
            IF a \in written
            THEN [idx \in DOMAIN m[a] |-> NewVal(Loc(a, idx))]
            ELSE m[a]]

\* Launches are issued one after the other on one stream.
RECURSIVE RunLaunches(_, _)
RunLaunches(m, launches) ==
    IF launches = <<>> THEN m
    ELSE RunLaunches(ExecLaunch(m, Head(launches)), Tail(launches))

\* The launches of reconstruct, grouped as the source groups them.
Stages ==
    <<"slopes", "faceQ", "depth", "negx", "negy", "rounding", "velocity", "conservatives">>

Launches(stage) ==
    CASE stage = "slopes" -> <<get_slpx, get_slpy>>
      [] stage = "faceQ" -> <<add_xmQ, subtract_xpQ, add_ymQ, subtract_ypQ>>
      [] stage = "depth" ->
           <<subtract_H,
             subtract_depth("xmQ", "xmU", "xfcenters"), subtract_depth("xpQ", "xpU", "xfcenters"),
             subtract_depth("ymQ", "ymU", "yfcenters"), subtract_depth("ypQ", "ypU", "yfcenters")>>
      [] stage = "negx" -> <<neg_internal_x, neg_edge_xp, neg_edge_xm>>
      [] stage = "negy" -> <<neg_internal_y, neg_edge_yp, neg_edge_ym>>
      [] stage = "rounding" ->
           <<fix_rounding("xmU"), fix_rounding("xpU"), fix_rounding("ymU"), fix_rounding("ypU")>>
      [] stage = "velocity" ->
           <<recnstrt_vel("xmQ", "xmU"), recnstrt_vel("xpQ", "xpU"),
             recnstrt_vel("ymQ", "ymU"), recnstrt_vel("ypQ", "ypU")>>
      [] stage = "conservatives" ->
           <<recnstrt_cnsrv("xmQ", "xmU", "xfcenters"), recnstrt_cnsrv("xpQ", "xpU", "xfcenters"),
             recnstrt_cnsrv("ymQ", "ymU", "yfcenters"), recnstrt_cnsrv("ypQ", "ypU", "yfcenters")>>

RunStage(stage, next) ==
    /\ pc = stage
    /\ mem' = RunLaunches(mem, Launches(stage))
    /\ pc' = next
    /\ UNCHANGED <<theta, drytol, tol>>

----------------------------------------------------------------------------
(* Inputs.  Q and the topography are sampled from value tables: a start    *)
(* offset per table and a step per direction select the field, so that     *)
(* fields flat in one direction (step 0), monotone runs, local extrema,    *)
(* beds above the surface and surfaces below the bed all occur.            *)

\* Steps of the table index per column and per row.
StepVals == {<<0, 0>>, <<0, 1>>, <<1, 0>>, <<1, 1>>, <<1, 2>>, <<2, 1>>}

WTab == <<0, 1, 4, 9, 9, 6, 2, 2, 1>>

HuTab == <<0, 3, -2>>

HvTab == <<1, 0, -4>>

BTab == <<0, 0, 2, 6, 1>>

\* Offsets into WTab (and HuTab, HvTab) and into BTab of the first element.
StartVals == {0, 2, 4, 5, 7}

BedStartVals == 0 .. 3

Pick(tab, n) == R(tab[(n % Len(tab)) + 1])

InputQ(w0, sx, sy) ==
    [idx \in Shape("Q") |->
        LET n == sx * idx[3] + sy * idx[2]
        IN  CASE idx[1] = 0 -> Pick(WTab, w0 + n)
              [] idx[1] = 1 -> Pick(HuTab, w0 + n)
              [] idx[1] = 2 -> Pick(HvTab, w0 + 2 * n)]

\* Bed elevation on the half-cell lattice: cell (i, j) has its centre at
\* (2i+1, 2j+1), its left face at (2i+1, 2j) and its lower face at (2i, 2j+1).
Bed(b0, y2, x2) == Pick(BTab, b0 + x2 + 3 * y2)

ThetaVals == {One, Div(R(13), R(10))}

DrytolVals == {R(5)}

TolVals == {R(-1), Zero, R(3)}

\* What the output buffers may hold when reconstruct is called.
JunkVals == {NaN}

Inputs(w0, sx, sy, b0, junk) ==
    [a \in Arrays |->
        CASE a = "Q" -> InputQ(w0, sx, sy)
          [] a = "centers" -> [ij \in Shape(a) |-> Bed(b0, 2 * ij[1] + 1, 2 * ij[2] + 1)]
          [] a = "xfcenters" -> [ij \in Shape(a) |-> Bed(b0, 2 * ij[1] + 1, 2 * ij[2])]
          [] a = "yfcenters" -> [ij \in Shape(a) |-> Bed(b0, 2 * ij[1], 2 * ij[2] + 1)]
          [] OTHER -> [idx \in Shape(a) |-> junk]]

InitFrom(steps, junks, thetas, tols) ==
    /\ \E w0 \in StartVals, st \in steps, b0 \in BedStartVals, junk \in junks :
          mem = Inputs(w0, st[1], st[2], b0, junk)
    /\ theta \in thetas
    /\ drytol \in DrytolVals
    /\ tol \in tols
    /\ pc = "slopes"

Init == InitFrom(StepVals, JunkVals, ThetaVals, TolVals)

----------------------------------------------------------------------------
(* reconstruct, one action per group of launches *)

get_slopes == RunStage("slopes", "faceQ")

get_face_cnsrv == RunStage("faceQ", "depth")

calc_depth == RunStage("depth", "negx")

fix_neg_depth_x == RunStage("negx", "negy")

fix_neg_depth_y == RunStage("negy", "rounding")

fix_rounding_errors == RunStage("rounding", "velocity")

recnstrt_face_vel == RunStage("velocity", "conservatives")

recnstrt_face_cnsrv == RunStage("conservatives", "done")

Next ==
    \/ get_slopes
    \/ get_face_cnsrv
    \/ calc_depth
    \/ fix_neg_depth_x
    \/ fix_neg_depth_y
    \/ fix_rounding_errors
    \/ recnstrt_face_vel
    \/ recnstrt_face_cnsrv

Spec == Init /\ [][Next]_vars

\* The same calls on the fields of one step pair, one theta, one tol and one
\* prior content of the buffers: which elements a launch reads and writes
\* does not depend on the values.
InitStages == InitFrom({<<1, 2>>}, {R(7)}, {One}, {R(3)})

SpecStages == InitStages /\ [][Next]_vars

----------------------------------------------------------------------------
(* Vocabulary of the properties *)

Faces ==
    {[Q |-> "xmQ", U |-> "xmU", b |-> "xfcenters", dir |-> "x", side |-> "minus"],
     [Q |-> "xpQ", U |-> "xpU", b |-> "xfcenters", dir |-> "x", side |-> "plus"],
     [Q |-> "ymQ", U |-> "ymU", b |-> "yfcenters", dir |-> "y", side |-> "minus"],
     [Q |-> "ypQ", U |-> "ypU", b |-> "yfcenters", dir |-> "y", side |-> "plus"]}

Cells == Shape("H")

Done == pc = "done"

\* The limited slope of component k at the cell in row r and column c of Q.
SlopeX(k, r, c) ==
    minmod_slope_kernel(mem.Q[<<k, r, c - 1>>], mem.Q[<<k, r, c>>], mem.Q[<<k, r, c + 1>>], theta)

SlopeY(k, r, c) ==
    minmod_slope_kernel(mem.Q[<<k, r - 1, c>>], mem.Q[<<k, r, c>>], mem.Q[<<k, r + 1, c>>], theta)

\* Row and column in Q of the cell on the minus side (left of, below) and on
\* the plus side (right of, above) face ij of a direction.
CellOf(f, ij) ==
    CASE f.dir = "x" /\ f.side = "minus" -> <<ybg + ij[1], xbg - 1 + ij[2]>>
      [] f.dir = "x" /\ f.side = "plus"  -> <<ybg + ij[1], xbg + ij[2]>>
      [] f.dir = "y" /\ f.side = "minus" -> <<ybg - 1 + ij[1], xbg + ij[2]>>
      [] f.dir = "y" /\ f.side = "plus"  -> <<ybg + ij[1], xbg + ij[2]>>

\* The value of component k extrapolated to face ij from its own side.
Extrap(f, k, ij) ==
    LET rc == CellOf(f, ij)
        slp == IF f.dir = "x" THEN SlopeX(k, rc[1], rc[2]) ELSE SlopeY(k, rc[1], rc[2])
    IN  IF f.side = "minus" THEN Add(mem.Q[<<k, rc[1], rc[2]>>], slp)
        ELSE Sub(mem.Q[<<k, rc[1], rc[2]>>], slp)

\* Face depth after topography subtraction, before any correction.
RawDepth(f, ij) == Sub(Extrap(f, 0, ij), mem[f.b][ij])

\* Cell-centre depth w - b.
CenterDepth(ij) == Sub(mem.Q[<<0, ybg + ij[1], xbg + ij[2]>>], mem.centers[ij])

\* The two internal-facing faces of cell ij in a direction: the plus side of
\* its left (lower) face and the minus side of its right (upper) face.
LeftFace(dir, ij) == ij

RightFace(dir, ij) == IF dir = "x" THEN <<ij[1], ij[2] + 1>> ELSE <<ij[1] + 1, ij[2]>>

FaceOf(dir, side) == CHOOSE f \in Faces : f.dir = dir /\ f.side = side

RawLeft(dir, ij) == RawDepth(FaceOf(dir, "plus"), LeftFace(dir, ij))

RawRight(dir, ij) == RawDepth(FaceOf(dir, "minus"), RightFace(dir, ij))

\* The positivity correction fires for cell ij in a direction.
Fired(dir, ij) == Less(RawLeft(dir, ij), Zero) \/ Less(RawRight(dir, ij), Zero)

FinalLeft(dir, ij) == mem[FaceOf(dir, "plus").U][<<0, LeftFace(dir, ij)[1], LeftFace(dir, ij)[2]>>]

FinalRight(dir, ij) == mem[FaceOf(dir, "minus").U][<<0, RightFace(dir, ij)[1], RightFace(dir, ij)[2]>>]

Depth(f, ij) == mem[f.U][<<0, ij[1], ij[2]>>]

FaceElems == {<<f, ij>> \in Faces \X (Shape("xfcenters") \cup Shape("yfcenters")) : ij \in Shape(f.b)}

Dirs == {"x", "y"}

Vel(f, k, ij) == mem[f.U][<<k, ij[1], ij[2]>>]

Cnsrv(f, k, ij) == mem[f.Q][<<k, ij[1], ij[2]>>]

----------------------------------------------------------------------------
(* C1 *)

\* C1 as stated: after reconstruct no depth is negative, neither the
\* cell-centre depth of any interior cell nor any element of the four face
\* depth arrays.
C1_NoNegativeDepth ==
    Done =>
        /\ \A ij \in Cells : Leq(Zero, mem.H[ij])
        /\ \A e \in FaceElems : Leq(Zero, Depth(e[1], e[2]))

\* A cell whose surface lies below the bed, whose correction fired on the
\* left side, and whose centre depth is left negative while tol >= 0.
C1_Witness ==
    /\ Done
    /\ Leq(Zero, tol)
    /\ \E d \in Dirs, ij \in Cells :
          /\ Less(CenterDepth(ij), Zero) /\ Less(RawLeft(d, ij), Zero)
          /\ Less(mem.H[ij], Zero)

----------------------------------------------------------------------------
(* C2 *)

\* C2 as stated: after reconstruct, for every interior cell and direction in
\* which the positivity correction fired, the average of the cell's two
\* internal-facing face depths equals the cell-centre depth w - b.
C2_MassConserved ==
    Done =>
        \A d \in Dirs, ij \in Cells :
            Fired(d, ij) =>
                Eq(Div(Add(FinalLeft(d, ij), FinalRight(d, ij)), Two), CenterDepth(ij))

\* C2 amended: the average equals the cell-centre depth provided
\* 2 * (w - b) >= tol; otherwise rounding suppression has zeroed the
\* redistributed depth too and both face depths are 0.
C2_MassConservedAboveTol ==
    Done =>
        \A d \in Dirs, ij \in Cells :
            Fired(d, ij) =>
                IF Less(Mul(CenterDepth(ij), Two), tol)
                THEN Eq(FinalLeft(d, ij), Zero) /\ Eq(FinalRight(d, ij), Zero)
                ELSE Eq(Div(Add(FinalLeft(d, ij), FinalRight(d, ij)), Two), CenterDepth(ij))

\* A wet cell whose correction fired and whose redistributed depth survived.
C2_Witness ==
    /\ Done
    /\ \E d \in Dirs, ij \in Cells :
          /\ Fired(d, ij)
          /\ Less(Zero, CenterDepth(ij))
          /\ ~Less(Mul(CenterDepth(ij), Two), tol)
          /\ {FinalLeft(d, ij), FinalRight(d, ij)} = {Zero, Mul(CenterDepth(ij), Two)}

----------------------------------------------------------------------------
(* C3 *)

\* C3: after reconstruct, at every face element whose corrected depth is
\* strictly less than drytol both velocity components are exactly 0; at every
\* other face element u = hu/h and v = hv/h with the extrapolated momentum and
\* the corrected depth.
C3_DryVelocity ==
    Done =>
        \A e \in FaceElems :
            LET f == e[1]
                ij == e[2]
                h == Depth(f, ij)
            IN  IF Less(h, drytol)
                THEN Eq(Vel(f, 1, ij), Zero) /\ Eq(Vel(f, 2, ij), Zero)
                ELSE /\ Vel(f, 1, ij) = Div(Extrap(f, 1, ij), h)
                     /\ Vel(f, 2, ij) = Div(Extrap(f, 2, ij), h)

\* A damp face (0 < h < drytol) carrying momentum, and a wet face carrying
\* momentum.
C3_Witness ==
    /\ Done
    /\ \E e \in FaceElems :
          /\ Less(Zero, Depth(e[1], e[2])) /\ Less(Depth(e[1], e[2]), drytol)
          /\ ~Eq(Extrap(e[1], 1, e[2]), Zero) /\ ~Eq(Extrap(e[1], 2, e[2]), Zero)
    /\ \E e \in FaceElems :
          /\ ~Less(Depth(e[1], e[2]), drytol)
          /\ ~Eq(Vel(e[1], 1, e[2]), Zero) /\ ~Eq(Vel(e[1], 2, e[2]), Zero)

----------------------------------------------------------------------------
(* C4 *)

\* C4: after reconstruct, at every face element w = h + b with the face
\* topography of the element's direction, hu = h * u and hv = h * v, h being
\* the depth after positivity correction and rounding suppression.
C4_Recombination ==
    Done =>
        \A e \in FaceElems :
            LET f == e[1]
                ij == e[2]
            IN  /\ Cnsrv(f, 0, ij) = Add(Depth(f, ij), mem[f.b][ij])
                /\ Cnsrv(f, 1, ij) = Mul(Depth(f, ij), Vel(f, 1, ij))
                /\ Cnsrv(f, 2, ij) = Mul(Depth(f, ij), Vel(f, 2, ij))

\* A face whose depth the correction changed, over a bed that is not at 0,
\* with both velocities nonzero.
C4_Witness ==
    /\ Done
    /\ \E e \in FaceElems :
          /\ Depth(e[1], e[2]) # RawDepth(e[1], e[2])
          /\ ~Eq(mem[e[1].b][e[2]], Zero)
          /\ ~Eq(Vel(e[1], 1, e[2]), Zero) /\ ~Eq(Vel(e[1], 2, e[2]), Zero)

----------------------------------------------------------------------------
(* C9 *)

\* Every array element the element operations of a stage touch lies inside
\* its array.
TouchesInBounds(stage) ==
    \A l \in 1 .. Len(Launches(stage)) : \A op \in Launches(stage)[l] :
        /\ \A n \in 1 .. Len(op.ins) : InBounds(op.ins[n])
        /\ \A n \in 1 .. Len(op.outs) : InBounds(op.outs[n])

\* C9: face extrapolation pairs each cell with its own limited slope: at each
\* of the interior+1 faces of a direction the minus value is Q[c] + slope[c]
\* for the cell c left of (below) the face and the plus value is
\* Q[c'] - slope[c'] for the cell c' right of (above) it, slope[c] being the
\* limiter's result for (Q[c-1], Q[c], Q[c+1]), boundary faces included; and
\* with ngh >= 2 every element the slope and extrapolation launches touch
\* lies inside its array.
C9_FaceExtrapolation ==
    /\ pc = "depth" =>
          \A e \in FaceElems, k \in Comps : Cnsrv(e[1], k, e[2]) = Extrap(e[1], k, e[2])
    /\ ngh >= 2 /\ pc \in {"slopes", "faceQ"} => TouchesInBounds(pc)

\* The slope of the cell on the minus side of face ij and of the cell on its
\* plus side.
SlopeAt(f, k, ij) ==
    IF f.dir = "x" THEN SlopeX(k, CellOf(f, ij)[1], CellOf(f, ij)[2])
    ELSE SlopeY(k, CellOf(f, ij)[1], CellOf(f, ij)[2])

\* Extrapolation is done and, in each direction, some face lies between two
\* cells whose slopes are nonzero and differ.
C9_Witness ==
    /\ pc = "depth"
    /\ \A d \in Dirs :
          \E ij \in Shape(FaceOf(d, "minus").b), k \in Comps :
              /\ ~Eq(SlopeAt(FaceOf(d, "minus"), k, ij), Zero)
              /\ ~Eq(SlopeAt(FaceOf(d, "plus"), k, ij), Zero)
              /\ SlopeAt(FaceOf(d, "minus"), k, ij) # SlopeAt(FaceOf(d, "plus"), k, ij)

----------------------------------------------------------------------------
(* C5: the limiter alone, on every stencil of a row, a column and a        *)
(* mirrored row of values drawn cell by cell.                              *)

STab == <<0, 1, 3>>

LimiterThetas == {One, Div(R(13), R(10)), Two}

\* Component 0 holds s along every row and component 1 along every column,
\* from the first cell a stencil reads on; component 2 mirrors component 0.
LimiterQ(s) ==
    [idx \in Shape("Q") |->
        LET At(n) == IF n \in DOMAIN s THEN s[n] ELSE 0
        IN  CASE idx[1] = 0 -> R(At(idx[3] - (xbg - 2)))
              [] idx[1] = 1 -> R(At(idx[2] - (ybg - 2)))
              [] idx[1] = 2 -> R(-At(idx[3] - (xbg - 2)))]

InitLimiter ==
    /\ \E s \in [0 .. (IF nx > ny THEN nx ELSE ny) + 3 -> {STab[n] : n \in DOMAIN STab}] :
          mem = [Inputs(0, 0, 0, 0, Zero) EXCEPT !.Q = LimiterQ(s)]
    /\ theta \in LimiterThetas
    /\ drytol \in DrytolVals
    /\ tol = Zero
    /\ pc = "slopes"

NextLimiter == get_slopes

SpecLimiter == InitLimiter /\ [][NextLimiter]_vars

\* The stencil (s1, s2, s3) and the slope of every element of slpx and slpy.
SlopeElems ==
    {<<mem.Q[<<x[1], ybg + x[2], xbg - 2 + x[3]>>], mem.Q[<<x[1], ybg + x[2], xbg - 1 + x[3]>>],
       mem.Q[<<x[1], ybg + x[2], xbg + x[3]>>], mem.slpx[x]>> : x \in Shape("slpx")}
    \cup
    {<<mem.Q[<<x[1], ybg - 2 + x[2], xbg + x[3]>>], mem.Q[<<x[1], ybg - 1 + x[2], xbg + x[3]>>],
       mem.Q[<<x[1], ybg + x[2], xbg + x[3]>>], mem.slpy[x]>> : x \in Shape("slpy")}

\* C5: with theta = 1 and s1 <= s2 <= s3 the slope the limiter returns lies
\* in the closed interval [0, (s3 - s1)/2].
C5_LimiterBound ==
    pc = "faceQ" /\ theta = One =>
        \A e \in SlopeElems :
            Leq(e[1], e[2]) /\ Leq(e[2], e[3]) =>
                Leq(Zero, e[4]) /\ Leq(e[4], Div(Sub(e[3], e[1]), Two))

\* Slopes are computed with theta = 1 for a strictly increasing stencil (a
\* positive slope), for one that is flat (0/0 in the kernel) and for one whose
\* forward difference alone is zero (a division of a positive number by 0).
C5_Witness ==
    /\ pc = "faceQ"
    /\ theta = One
    /\ \E e \in SlopeElems : Less(e[1], e[2]) /\ Less(e[2], e[3]) /\ Less(Zero, e[4])
    /\ \E e \in SlopeElems : e[1] = e[2] /\ e[2] = e[3]
    /\ \E e \in SlopeElems : Less(e[1], e[2]) /\ e[2] = e[3]

----------------------------------------------------------------------------
(* C6 *)

\* The cells in Q the stencils of a direction read, for the cell row (x) or
\* cell column (y) n.
StencilCells(d, n) ==
    IF d = "x" THEN {<<ybg + n, c>> : c \in xbg - 2 .. xed + 1}
    ELSE {<<r, xbg + n>> : r \in ybg - 2 .. yed + 1}

Lines(d) == IF d = "x" THEN 0 .. ny - 1 ELSE 0 .. nx - 1

\* Component k is flat along direction d: on every line all the values the
\* stencils read are equal.
Flat(d, k) ==
    \A n \in Lines(d) : \A p \in StencilCells(d, n) :
        mem.Q[<<k, p[1], p[2]>>] =
            mem.Q[<<k, IF d = "x" THEN ybg + n ELSE ybg, IF d = "x" THEN xbg ELSE xbg + n>>]

Slopes(d) == IF d = "x" THEN "slpx" ELSE "slpy"

FlatSlopesAndFaces(d, k) ==
    /\ pc = "faceQ" => \A idx \in Shape(Slopes(d)) : idx[1] = k => Eq(mem[Slopes(d)][idx], Zero)
    /\ pc = "depth" =>
          \A e \in FaceElems :
              e[1].dir = d =>
                  Cnsrv(e[1], k, e[2]) = mem.Q[<<k, CellOf(e[1], e[2])[1], CellOf(e[1], e[2])[2]>>]

\* The state in which the positivity correction of direction d is about to run.
AtCorrection(d) == pc = (IF d = "x" THEN "negx" ELSE "negy")

\* C6 as stated: if all cell-centre values the stencils read along a
\* direction are equal, the limiter returns slope 0 for every cell, the minus
\* and plus values at every face of the direction equal the common value, and
\* the positivity correction is not triggered in that direction.
C6_FlatField ==
    \A d \in Dirs, k \in Comps :
        pc \in {"faceQ", "depth", "negx", "negy"} /\ Flat(d, k) =>
            /\ FlatSlopesAndFaces(d, k)
            /\ k = 0 /\ AtCorrection(d) =>
                  \A e \in FaceElems : e[1].dir = d => ~Less(Depth(e[1], e[2]), Zero)

\* C6 amended: ... slope 0, face values equal to the common value, and the
\* positivity correction is triggered in that direction exactly at the faces
\* whose topography lies above the common surface elevation (nowhere, if no
\* face topography does).
C6_FlatFieldOverBed ==
    \A d \in Dirs, k \in Comps :
        pc \in {"faceQ", "depth", "negx", "negy"} /\ Flat(d, k) =>
            /\ FlatSlopesAndFaces(d, k)
            /\ k = 0 /\ AtCorrection(d) =>
                  \A e \in FaceElems :
                      e[1].dir = d =>
                          (Less(Depth(e[1], e[2]), Zero) <=>
                             Less(mem.Q[<<0, CellOf(e[1], e[2])[1], CellOf(e[1], e[2])[2]>>],
                                  mem[e[1].b][e[2]]))

\* A surface that is flat along x and not along y, at a nonzero elevation,
\* about to be corrected in x, with a face above the surface and one below.
C6_Witness ==
    /\ Flat("x", 0) /\ ~Flat("y", 0)
    /\ AtCorrection("x")
    /\ \E e \in FaceElems : e[1].dir = "x" /\ Less(Depth(e[1], e[2]), Zero)
    /\ \E e \in FaceElems : e[1].dir = "x" /\ Less(Zero, Depth(e[1], e[2]))

----------------------------------------------------------------------------
(* C7 *)

InputArrays == {"Q", "centers", "xfcenters", "yfcenters"}

\* The outputs the docstring of reconstruct lists: states.U at the cell
\* centres and the Q and U arrays of the four face states.
DocumentedOutputs == {"U"} \cup {f.Q : f \in Faces} \cup {f.U : f \in Faces}

\* The same inputs with every other buffer cleared.
Cleared(m) == [a \in DOMAIN m |-> IF a \in InputArrays THEN m[a] ELSE [idx \in DOMAIN m[a] |-> Zero]]

RECURSIVE RunStages(_, _)
RunStages(m, stages) ==
    IF stages = <<>> THEN m
    ELSE RunStages(RunLaunches(m, Launches(Head(stages))), Tail(stages))

\* C7: every output reconstruct is documented to update is recomputed on each
\* call: a call ends with the contents that a call with the same Q,
\* topography, theta, drytol and tol and cleared output buffers ends with.
C7_Stateless ==
    Done => \A a \in DocumentedOutputs : mem[a] = RunStages(Cleared(mem), Stages)[a]

----------------------------------------------------------------------------
(* C8 *)

\* What the internal correction makes of the pair (hl, hr) of a cell of
\* centre depth hc, and the edge clamp of h.
PairCorrected(hc, hl, hr) ==
    IF Less(hl, Zero) THEN <<Zero, Mul(hc, Two)>>
    ELSE IF Less(hr, Zero) THEN <<Mul(hc, Two), Zero>>
    ELSE <<hl, hr>>

Clamped(h) == IF Less(h, Zero) THEN Zero ELSE h

\* The cell whose pair holds face ij on side f.side, if any: the plus side
\* belongs to the cell right of (above) the face, the minus side to the cell
\* left of (below) it.
PairCell(f, ij) ==
    IF f.side = "plus" THEN ij
    ELSE IF f.dir = "x" THEN <<ij[1], ij[2] - 1>> ELSE <<ij[1] - 1, ij[2]>>

\* Face depth as the correction steps leave it.
Corrected(f, ij) ==
    LET c == PairCell(f, ij)
    IN  IF c \in Cells
        THEN PairCorrected(CenterDepth(c), RawLeft(f.dir, c), RawRight(f.dir, c))[IF f.side = "plus" THEN 1 ELSE 2]
        ELSE Clamped(RawDepth(f, ij))

Suppressed(h) == IF Less(h, tol) THEN Zero ELSE h

\* C8 as stated: rounding-error suppression runs on the corrected values, so
\* that after reconstruct every depth strictly less than tol, at cell centres
\* and in all four face arrays, is exactly 0 and every depth >= tol is as the
\* correction steps produced it.
C8_SuppressionAfterCorrection ==
    Done =>
        /\ \A e \in FaceElems : Depth(e[1], e[2]) = Suppressed(Corrected(e[1], e[2]))
        /\ \A ij \in Cells : mem.H[ij] = Suppressed(CenterDepth(ij))

\* A face depth the correction raised to 2 * hc > 0 and suppression then
\* zeroed, an edge depth clamped, a face depth kept, and a cell whose centre
\* depth lies below tol and is not 0.
C8_Witness ==
    /\ Done
    /\ \E ij \in Cells : Less(CenterDepth(ij), tol) /\ ~Eq(CenterDepth(ij), Zero)
    /\ \E e \in FaceElems :
          /\ PairCell(e[1], e[2]) \in Cells
          /\ Corrected(e[1], e[2]) # RawDepth(e[1], e[2])
          /\ Less(Zero, Corrected(e[1], e[2])) /\ Less(Corrected(e[1], e[2]), tol)
          /\ Eq(Depth(e[1], e[2]), Zero)
    /\ \E e \in FaceElems :
          PairCell(e[1], e[2]) \notin Cells /\ Less(RawDepth(e[1], e[2]), Zero)
    /\ \E e \in FaceElems : ~Less(Depth(e[1], e[2]), tol) /\ ~Eq(Depth(e[1], e[2]), Zero)

----------------------------------------------------------------------------
(* C10 *)

StageOps(stage) == UNION {Launches(stage)[l] : l \in 1 .. Len(Launches(stage))}

Ins(op) == {op.ins[n] : n \in 1 .. Len(op.ins)}

Outs(op) == {op.outs[n] : n \in 1 .. Len(op.outs)}

\* The face-depth elements of a direction.
DepthElems(d) ==
    {Loc(e[1].U, <<0, e[2][1], e[2][2]>>) : e \in {x \in FaceElems : x[1].dir = d}}

\* C10: in the stage about to run, every element written is written by
\* exactly one element operation and no element operation reads an element
\* another one writes, so the stage's launches, issued in order, leave what
\* all its element operations leave when run at once on the memory the stage
\* started from; the internal correction and the two edge clamps of a
\* direction write disjoint face-depth elements and each face-depth element of
\* the direction is in the pair of exactly one cell or on exactly one edge.
C10_StageIndependent ==
    pc # "done" =>
        /\ \A op1, op2 \in StageOps(pc) :
              op1 # op2 =>
                  /\ Outs(op1) \cap Outs(op2) = {}
                  /\ Ins(op1) \cap Outs(op2) = {}
        /\ RunLaunches(mem, Launches(pc)) = ExecLaunch(mem, StageOps(pc))
        /\ \A d \in Dirs :
              AtCorrection(d) =>
                  \A loc \in DepthElems(d) :
                      Cardinality({op \in StageOps(pc) : loc \in Outs(op)}) = 1

\* The x correction is about to run with a cell whose pair it will change
\* and an edge it will clamp.
C10_Witness ==
    /\ AtCorrection("x")
    /\ \E ij \in Cells :
          Less(mem.xpU[<<0, ij[1], ij[2]>>], Zero) \/ Less(mem.xmU[<<0, ij[1], ij[2] + 1>>], Zero)
    /\ \E i \in 0 .. ny - 1 :
          Less(mem.xpU[<<0, i, nx>>], Zero) \/ Less(mem.xmU[<<0, i, 0>>], Zero)

====
